---- MODULE Spec2Model ----
(***************************************************************************)
(* Model of seedtime_transaction_app.py: the Streamlit script that keeps a *)
(* session list of deposits and withdrawals and, on every rerun, rebuilds  *)
(* the client's statement with a multi-lot ledger (deposit_ledger).        *)
(*                                                                         *)
(* Decimal quantities (money in NGN, rates in percent) are fixed-point     *)
(* integers in thousandths: 50,000 NGN is 50000 * Unit, 20.66 % is 20660.  *)
(* Dates are day numbers.                                                  *)
(***************************************************************************)
EXTENDS Integers, Sequences, FiniteSets, TLC

\* ---------------------------------------------------------------- bounds
\* Longest session transaction list the model explores.
MaxTxns == 3

\* ------------------------------------------------------ program constants
\* Thousandths per unit (the resolution of the fixed-point representation).
Unit == 1000
\* Fixed-point scale of the daily growth factor (1 + daily_rate) ** days.
Scale == 1000000
\* Upper bounds of the first and second margin bands (get_client_rate).
Tier1Max == 50000 * Unit
Tier2Max == 499000 * Unit
\* Defaults of the rate inputs.
DefaultBaseRate == 20660
DefaultMargin1 == 2000
DefaultMargin2 == 3000
DefaultMargin3 == 4000

\* ------------------------------------------------------------ input sets
\* Amounts typed into the three amount inputs (0 = left empty).
InitialAmounts == {50000 * Unit, 499000 * Unit}
AdditionalAmounts == {50001 * Unit, 499000 * Unit}
WithdrawalAmounts == {50000 * Unit, 499000 * Unit}
\* Days chosen in the three date inputs (day 1 is today, their first value).
Dates == {1, 5}
\* Values of the Tenor input (min_value = 1, which is also its first value).
Tenors == {1, 10}
\* Values of the two text inputs ("" = left empty).
Names == {"", "Ada"}
Accounts == {"", "001"}
\* Rate configurations typed into the base-rate and margin inputs (the margin
\* inputs have no upper limit): the defaults, and one whose margins exceed the
\* base rate of 1 %: the second and third by 2 and 3 points (a small negative
\* client rate), the first by 36,500 points (a daily rate of -1).
Configs ==
    { [base |-> DefaultBaseRate, m1 |-> DefaultMargin1, m2 |-> DefaultMargin2, m3 |-> DefaultMargin3],
      [base |-> 1000, m1 |-> 36501000, m2 |-> 3000, m3 |-> 4000] }

\* The form contents a click is made with. The date of an optional amount
\* that is left empty is never read, so it is kept equal to the initial date;
\* a form that lacks a required field carries its optional amounts either
\* both empty or both filled.
AllForms ==
    [client_name : Names, account_number : Accounts,
     initial_deposit : InitialAmounts \cup {0}, initial_date : Dates,
     additional_deposit : AdditionalAmounts \cup {0}, additional_date : Dates,
     withdrawal : WithdrawalAmounts \cup {0}, withdrawal_date : Dates]

Forms ==
    { f \in AllForms :
        /\ f.additional_deposit = 0 => f.additional_date = f.initial_date
        /\ f.withdrawal = 0 => f.withdrawal_date = f.initial_date
        /\ (f.client_name = "" \/ f.account_number = "" \/ f.initial_deposit = 0)
              => /\ (f.additional_deposit = 0) = (f.withdrawal = 0)
                 /\ f.additional_date = f.initial_date
                 /\ f.withdrawal_date = f.initial_date }

VARIABLES
    base_rate, margin_1, margin_2, margin_3,   \* st.session_state rate inputs
    transactions,      \* st.session_state.transactions
    notice,            \* what the Add Transaction handler reported in this rerun
    tenor, initial_date,   \* widget values of the current rerun
    df,                \* the date-sorted transaction frame
    maturity_date,
    deposit_ledger,    \* the active lots
    rows,              \* the statement rows
    i,                 \* position of the ledger loop in df
    total_principal, total_roi, total_value,
    capitalized,       \* history: interest added to lots so far in this run
    pc                 \* position of the script

vars == <<base_rate, margin_1, margin_2, margin_3, transactions, notice, tenor,
          initial_date, df, maturity_date, deposit_ledger, rows, i,
          total_principal, total_roi, total_value, capitalized, pc>>

\* ------------------------------------------------------------- arithmetic
RECURSIVE SumSeq(_)
SumSeq(s) == IF s = <<>> THEN 0 ELSE Head(s) + SumSeq(Tail(s))

\* round(x, 2) on a value in thousandths: nearest hundredth, ties to even.
Round2(x) ==
    LET q == x \div 10
        r == x % 10
    IN  IF r < 5 THEN q * 10
        ELSE IF r > 5 THEN (q + 1) * 10
        ELSE IF q % 2 = 0 THEN q * 10 ELSE (q + 1) * 10

\* floor(p * e / Scale), computed digit-wise so no product leaves 32 bits.
MulScale(p, e) ==
    LET a == p \div 1000000
        b == (p % 1000000) \div 1000
        c == p % 1000
    IN  a * e + ((b * e + ((c * e) \div 1000)) \div 1000)

\* ------------------------------------------------------------ rate resolver
\* Variant: band boundaries open on the upper end (an amount equal to a
\* boundary falls into the higher band).
get_client_rate_exclusive(amount) ==
    IF amount < Tier1Max THEN base_rate - margin_1
    ELSE IF amount < Tier2Max THEN base_rate - margin_2
    ELSE base_rate - margin_3

get_client_rate(amount) ==
    IF amount <= Tier1Max THEN base_rate - margin_1
    ELSE IF amount <= Tier2Max THEN base_rate - margin_2
    ELSE base_rate - margin_3

\* daily_rate = rate / 100 / 365, as a fraction scaled by Scale.
daily_rate(rate) == (rate * 10) \div 365

\* (1 + daily_rate) ** days, scaled by Scale.
RECURSIVE Growth(_, _)
Growth(dr, days) ==
    IF days = 0 THEN Scale
    ELSE LET g == Growth(dr, days - 1) IN g + MulScale(g, dr)

compute_compound_interest(principal, rate, days) ==
    MulScale(principal, Growth(daily_rate(rate), days) - Scale)

\* ------------------------------------------------------------------ sorting
\* Stable insertion of record r into a sequence sorted by key field f.
RECURSIVE InsertByDate(_, _)
InsertByDate(s, r) ==
    IF s = <<>> THEN <<r>>
    ELSE IF r.Date < Head(s).Date THEN <<r>> \o s
    ELSE <<Head(s)>> \o InsertByDate(Tail(s), r)

\* df.sort_values(by="Date") followed by reset_index.
RECURSIVE SortByDate(_)
SortByDate(s) ==
    IF s = <<>> THEN <<>>
    ELSE InsertByDate(SortByDate(SubSeq(s, 1, Len(s) - 1)), s[Len(s)])

\* Longest frame that the default kind of sort_values ("quicksort") sorts by
\* insertion alone, which keeps rows of equal date in their order.
StableSortMax == 17

\* s without its k-th element.
RemoveAt(s, k) == SubSeq(s, 1, k - 1) \o SubSeq(s, k + 1, Len(s))

\* Every ordering of the records of s.
RECURSIVE Arrangements(_)
Arrangements(s) ==
    IF s = <<>> THEN {<<>>}
    ELSE UNION { { <<s[k]>> \o t : t \in Arrangements(RemoveAt(s, k)) } :
                   k \in { n \in 1..Len(s) : \A m \in 1..(n - 1) : s[m] # s[n] } }

\* Length of the longest prefix of s whose records carry the date of s[1].
RECURSIVE SameDatePrefix(_)
SameDatePrefix(s) ==
    IF Len(s) <= 1 THEN Len(s)
    ELSE IF s[2].Date # s[1].Date THEN 1
    ELSE 1 + SameDatePrefix(Tail(s))

\* Every ordering of the date-sorted sequence s that keeps the dates ascending.
RECURSIVE DateOrderings(_)
DateOrderings(s) ==
    IF s = <<>> THEN {<<>>}
    ELSE LET n == SameDatePrefix(s)
         IN  { a \o b : a \in Arrangements(SubSeq(s, 1, n)),
                         b \in DateOrderings(SubSeq(s, n + 1, Len(s))) }

\* The frames df.sort_values(by="Date") can leave (kind is left at its default,
\* which is not a stable sort): up to StableSortMax rows the stable order;
\* beyond, rows of equal date in an order the call does not fix.
SortValues(s) ==
    IF Len(s) <= StableSortMax THEN {SortByDate(s)}
    ELSE DateOrderings(SortByDate(s))

RECURSIVE InsertLot(_, _)
InsertLot(s, d) ==
    IF s = <<>> THEN <<d>>
    ELSE IF d.date < Head(s).date THEN <<d>> \o s
    ELSE <<Head(s)>> \o InsertLot(Tail(s), d)

\* deposit_ledger.sort(key=lambda x: x['date'])
RECURSIVE SortLedger(_)
SortLedger(s) ==
    IF s = <<>> THEN <<>>
    ELSE InsertLot(SortLedger(SubSeq(s, 1, Len(s) - 1)), s[Len(s)])

\* -------------------------------------------------------------- the ledger
\* Variant: both end dates counted.
ElapsedDaysInclusive(to_date, deposit) == to_date - deposit.last_updated + 1

\* days = (txn_date - deposit['last_updated']).days
ElapsedDays(to_date, deposit) == to_date - deposit.last_updated

\* Variant: the tier is chosen by the aggregate principal of the ledger.
LotInterestAggregateTier(deposit, to_date) ==
    LET days == ElapsedDays(to_date, deposit)
        aggregate == SumSeq([k \in 1..Len(deposit_ledger) |-> deposit_ledger[k].amount])
    IN  IF days > 0
        THEN compute_compound_interest(deposit.amount, get_client_rate(aggregate), days)
        ELSE 0

\* Interest one lot earns in the accrual step up to to_date (0 if days <= 0).
LotInterest(deposit, to_date) ==
    LET days == ElapsedDays(to_date, deposit)
    IN  IF days > 0
        THEN compute_compound_interest(deposit.amount, get_client_rate(deposit.amount), days)
        ELSE 0

\* Body of the accrual loop for one lot.
AccrueLot(deposit, to_date) ==
    IF ElapsedDays(to_date, deposit) > 0
    THEN [deposit EXCEPT !.roi = @ + LotInterest(deposit, to_date),
                         !.amount = @ + LotInterest(deposit, to_date),
                         !.last_updated = to_date]
    ELSE deposit

AccrueAll(ledger, to_date) ==
    [k \in 1..Len(ledger) |-> AccrueLot(ledger[k], to_date)]

InterestAll(ledger, to_date) ==
    SumSeq([k \in 1..Len(ledger) |-> LotInterest(ledger[k], to_date)])

\* Body of the finalization loop for one lot.
FinalAccrueLot(deposit) ==
    IF deposit.last_updated < maturity_date
    THEN AccrueLot(deposit, maturity_date)
    ELSE deposit

FinalInterest(deposit) ==
    IF deposit.last_updated < maturity_date
    THEN LotInterest(deposit, maturity_date)
    ELSE 0

\* The lot a Deposit opens; id is the identity of the dict object.
NewLot(txn, id) ==
    [id |-> id, amount |-> txn.Amount, date |-> txn.Date,
     last_updated |-> txn.Date, roi |-> 0]

\* Variant: the partial deduction does not clear `remaining`, so the loop goes
\* on deducting from the lots that follow.
RECURSIVE ConsumeKeepsRemaining(_, _)
ConsumeKeepsRemaining(ledger, remaining) ==
    IF ledger = <<>> THEN <<>>
    ELSE IF remaining <= 0 THEN ledger
    ELSE IF Head(ledger).amount <= remaining
         THEN <<[Head(ledger) EXCEPT !.amount = 0]>>
                  \o ConsumeKeepsRemaining(Tail(ledger), remaining - Head(ledger).amount)
         ELSE <<[Head(ledger) EXCEPT !.amount = @ - remaining]>>
                  \o ConsumeKeepsRemaining(Tail(ledger), remaining)

\* The deduction loop over the (sorted) ledger.
RECURSIVE Consume(_, _)
Consume(ledger, remaining) ==
    IF ledger = <<>> THEN <<>>
    ELSE IF remaining <= 0 THEN ledger
    ELSE IF Head(ledger).amount <= remaining
         THEN <<[Head(ledger) EXCEPT !.amount = 0]>>
                  \o Consume(Tail(ledger), remaining - Head(ledger).amount)
         ELSE <<[Head(ledger) EXCEPT !.amount = @ - remaining]>> \o Tail(ledger)

\* Variant: the filter keeps the lots a withdrawal has emptied.
IsActiveOrEmpty(d) == d.amount >= 0

\* [d for d in deposit_ledger if d['amount'] > 0]
IsActive(d) == d.amount > 0

\* Variant: the ledger is visited newest lot first.
WithdrawNewestFirst(ledger, amount) ==
    LET sorted == SortLedger(ledger)
        newest == [k \in 1..Len(sorted) |-> sorted[Len(sorted) + 1 - k]]
    IN  SelectSeq(Consume(newest, amount), IsActive)

\* The whole Withdrawal branch: sort, deduct oldest first, drop emptied lots.
Withdraw(ledger, amount) ==
    SelectSeq(Consume(SortLedger(ledger), amount), IsActive)

TotalPrincipal(ledger) == SumSeq([k \in 1..Len(ledger) |-> ledger[k].amount])
TotalRoi(ledger) == SumSeq([k \in 1..Len(ledger) |-> ledger[k].roi])

\* The dict appended to rows for a transaction, given the ledger after it.
TxnRow(txn, ledger) ==
    [Date |-> txn.Date, Transaction |-> txn.Transaction, Amount |-> txn.Amount,
     Balance |-> Round2(TotalPrincipal(ledger)),
     Rate |-> Round2(get_client_rate(TotalPrincipal(ledger))),
     Roi |-> Round2(TotalRoi(ledger))]

\* Variant: the final row is dated like the last transaction.
MaturityRowAtLastTxn(ledger) ==
    [Date |-> df[Len(df)].Date, Transaction |-> "Maturity", Amount |-> 0,
     Balance |-> Round2(TotalPrincipal(ledger)),
     Rate |-> Round2(get_client_rate(TotalPrincipal(ledger))),
     Roi |-> Round2(TotalRoi(ledger))]

MaturityRow(ledger) ==
    [Date |-> maturity_date, Transaction |-> "Maturity", Amount |-> 0,
     Balance |-> Round2(TotalPrincipal(ledger)),
     Rate |-> Round2(get_client_rate(TotalPrincipal(ledger))),
     Roi |-> Round2(TotalRoi(ledger))]

\* ------------------------------------------------------- the session list
Txn(date, kind, amount) == [Date |-> date, Transaction |-> kind, Amount |-> amount]

\* Variant: the account number is not looked at.
FormInvalidIgnoresAccount(client_name, account_number, initial_deposit, tenor_in) ==
    client_name = "" \/ initial_deposit = 0 \/ tenor_in = 0

\* if not client_name or not account_number or initial_deposit == 0 or tenor == 0
FormInvalid(client_name, account_number, initial_deposit, tenor_in) ==
    client_name = "" \/ account_number = "" \/ initial_deposit = 0 \/ tenor_in = 0

\* The records one accepted Add Transaction click appends, in order.
\* Variant: the additional deposit is recorded even when its amount is 0.
AppendedAnyAdditional(initial_deposit, init_date, additional_deposit, additional_date, withdrawal, withdrawal_date) ==
    <<Txn(init_date, "Deposit", initial_deposit)>>
    \o (IF additional_deposit >= 0
        THEN <<Txn(additional_date, "Deposit", additional_deposit)>> ELSE <<>>)
    \o (IF withdrawal > 0
        THEN <<Txn(withdrawal_date, "Withdrawal", withdrawal)>> ELSE <<>>)

\* The records the else branch of the handler appends, in order.
Appended(initial_deposit, init_date, additional_deposit, additional_date, withdrawal, withdrawal_date) ==
    <<Txn(init_date, "Deposit", initial_deposit)>>
    \o (IF additional_deposit > 0
        THEN <<Txn(additional_date, "Deposit", additional_deposit)>> ELSE <<>>)
    \o (IF withdrawal > 0
        THEN <<Txn(withdrawal_date, "Withdrawal", withdrawal)>> ELSE <<>>)

\* ------------------------------------------------------------------- Init
Init ==
    /\ base_rate = DefaultBaseRate
    /\ margin_1 = DefaultMargin1
    /\ margin_2 = DefaultMargin2
    /\ margin_3 = DefaultMargin3
    /\ transactions = <<>>
    /\ notice = "none"
    /\ tenor = 1
    /\ initial_date = 1
    /\ df = <<>>
    /\ maturity_date = 0
    /\ deposit_ledger = <<>>
    /\ rows = <<>>
    /\ i = 1
    /\ total_principal = 0
    /\ total_roi = 0
    /\ total_value = 0
    /\ capitalized = 0
    /\ pc = "idle"

\* ---------------------------------------------------------------- actions
\* The part of a rerun between the handler and the ledger loop: build and
\* sort df, fix the maturity date, start with an empty ledger and no rows.
StartRun(txns, init_date, tenor_in) ==
    /\ df' \in SortValues(txns)
    /\ maturity_date' = IF txns = <<>> THEN maturity_date ELSE init_date + tenor_in
    /\ deposit_ledger' = <<>>
    /\ rows' = <<>>
    /\ i' = 1
    /\ total_principal' = 0
    /\ total_roi' = 0
    /\ total_value' = 0
    /\ capitalized' = 0
    /\ pc' = IF txns = <<>> THEN "idle" ELSE "accrue"

\* A rerun caused by editing an input widget: no button is pressed.
Rerun ==
    /\ pc \in {"idle", "done"}
    /\ \E cfg \in Configs, tenor_in \in Tenors, init_date \in Dates :
        /\ base_rate' = cfg.base
        /\ margin_1' = cfg.m1
        /\ margin_2' = cfg.m2
        /\ margin_3' = cfg.m3
        /\ tenor' = tenor_in
        /\ initial_date' = init_date
        /\ notice' = "none"
        /\ transactions' = transactions
        /\ StartRun(transactions, init_date, tenor_in)

\* A rerun caused by pressing Add Transaction with the form as it stands.
Click(form) ==
    LET new == Appended(form.initial_deposit, form.initial_date,
                        form.additional_deposit, form.additional_date,
                        form.withdrawal, form.withdrawal_date)
    IN  /\ initial_date' = form.initial_date
        /\ IF FormInvalid(form.client_name, form.account_number,
                          form.initial_deposit, tenor)
           THEN /\ notice' = "error"
                /\ transactions' = transactions
           ELSE /\ Len(transactions) + Len(new) <= MaxTxns
                /\ notice' = "success"
                /\ transactions' = transactions \o new
        /\ StartRun(transactions', form.initial_date, tenor)

AddTransaction ==
    /\ pc \in {"idle", "done"}
    /\ \E form \in Forms : Click(form)
    /\ UNCHANGED <<base_rate, margin_1, margin_2, margin_3, tenor>>

\* Ledger loop, first half of an iteration: accrue every lot up to txn_date.
Accrue ==
    /\ pc = "accrue"
    /\ deposit_ledger' = AccrueAll(deposit_ledger, df[i].Date)
    /\ capitalized' = capitalized + InterestAll(deposit_ledger, df[i].Date)
    /\ pc' = "apply"
    /\ UNCHANGED <<base_rate, margin_1, margin_2, margin_3, transactions, notice,
                   tenor, initial_date, df, maturity_date, rows, i,
                   total_principal, total_roi, total_value>>

\* Ledger loop, second half: apply the transaction, take totals, append a row.
ApplyWith(ledger) ==
    /\ deposit_ledger' = ledger
    /\ total_principal' = TotalPrincipal(ledger)
    /\ total_roi' = TotalRoi(ledger)
    /\ rows' = Append(rows, TxnRow(df[i], ledger))
    /\ i' = i + 1
    /\ pc' = IF i < Len(df) THEN "accrue" ELSE "final"
    /\ UNCHANGED <<base_rate, margin_1, margin_2, margin_3, transactions, notice,
                   tenor, initial_date, df, maturity_date, total_value, capitalized>>

ApplyDeposit ==
    /\ pc = "apply"
    /\ df[i].Transaction = "Deposit"
    /\ ApplyWith(Append(deposit_ledger, NewLot(df[i], i)))

ApplyWithdrawal ==
    /\ pc = "apply"
    /\ df[i].Transaction = "Withdrawal"
    /\ ApplyWith(Withdraw(deposit_ledger, df[i].Amount))

\* After the loop: accrue to maturity, take the totals, append the Maturity row.
Finalize ==
    /\ pc = "final"
    /\ LET ledger == [k \in 1..Len(deposit_ledger) |-> FinalAccrueLot(deposit_ledger[k])]
       IN  /\ deposit_ledger' = ledger
           /\ capitalized' = capitalized
                  + SumSeq([k \in 1..Len(deposit_ledger) |-> FinalInterest(deposit_ledger[k])])
           /\ total_principal' = TotalPrincipal(ledger)
           /\ total_roi' = TotalRoi(ledger)
           /\ total_value' = TotalPrincipal(ledger)
           /\ rows' = Append(rows, MaturityRow(ledger))
    /\ pc' = "done"
    /\ UNCHANGED <<base_rate, margin_1, margin_2, margin_3, transactions, notice,
                   tenor, initial_date, df, maturity_date, i>>

Next ==
    \/ Rerun
    \/ AddTransaction
    \/ Accrue
    \/ ApplyDeposit
    \/ ApplyWithdrawal
    \/ Finalize

Spec == Init /\ [][Next]_vars

\* ------------------------------------------------ the sort on long sessions
\* Length of the session lists on which the sort is examined.
LongLen == 18

\* The record of a click that fills in the initial deposit only.
SingleDeposits == { Txn(d, "Deposit", a) : d \in Dates, a \in InitialAmounts }

\* Sessions of LongLen such clicks: 50,000 on day 1 each time, except the
\* last two, which are any.
LongLists ==
    { [k \in 1..LongLen |->
          IF k <= LongLen - 2 THEN Txn(1, "Deposit", 50000 * Unit)
          ELSE last[k - (LongLen - 2)]] : last \in [1..2 -> SingleDeposits] }

\* A session that holds one of these lists, at the start of a rerun.
SortInit ==
    /\ base_rate = DefaultBaseRate
    /\ margin_1 = DefaultMargin1
    /\ margin_2 = DefaultMargin2
    /\ margin_3 = DefaultMargin3
    /\ transactions \in LongLists
    /\ notice = "none"
    /\ tenor = 1
    /\ initial_date = 1
    /\ df = <<>>
    /\ maturity_date = 0
    /\ deposit_ledger = <<>>
    /\ rows = <<>>
    /\ i = 1
    /\ total_principal = 0
    /\ total_roi = 0
    /\ total_value = 0
    /\ capitalized = 0
    /\ pc = "idle"

\* The rerun builds and sorts df; the ledger loop is not followed.
SortSpec == SortInit /\ [][Rerun]_vars

\* ------------------------------------------------- the click handler alone
\* The forms the handler accepts.
CompleteForms ==
    { f \in Forms : ~FormInvalid(f.client_name, f.account_number, f.initial_deposit, 1) }

\* What one accepted click appends.
OneClick ==
    { Appended(f.initial_deposit, f.initial_date, f.additional_deposit,
               f.additional_date, f.withdrawal, f.withdrawal_date) : f \in CompleteForms }

\* Session lists left by up to two accepted clicks, with room for a record.
SessionLists ==
    {<<>>} \cup { s \in OneClick : Len(s) < MaxTxns }
           \cup { st[1] \o st[2] :
                    st \in { p \in OneClick \X OneClick : Len(p[1]) + Len(p[2]) < MaxTxns } }

\* A session that holds one of these lists, when the button is pressed.
ClickInit ==
    /\ base_rate = DefaultBaseRate
    /\ margin_1 = DefaultMargin1
    /\ margin_2 = DefaultMargin2
    /\ margin_3 = DefaultMargin3
    /\ transactions \in SessionLists
    /\ notice = "none"
    /\ tenor = 1
    /\ initial_date = 1
    /\ df = <<>>
    /\ maturity_date = 0
    /\ deposit_ledger = <<>>
    /\ rows = <<>>
    /\ i = 1
    /\ total_principal = 0
    /\ total_roi = 0
    /\ total_value = 0
    /\ capitalized = 0
    /\ pc = "idle"

\* One press of Add Transaction; the ledger loop is not followed.
ClickSpec == ClickInit /\ [][AddTransaction]_vars

TypeOK ==
    /\ pc \in {"idle", "accrue", "apply", "final", "done"}
    /\ Len(transactions) <= MaxTxns
    /\ i \in 1..(MaxTxns + 1)

\* ------------------------------------------------- notions used by the claims
\* A statement row has just been emitted (or the statement is complete).
RowJustEmitted == pc \in {"accrue", "final", "done"} /\ rows # <<>>

LastRow == rows[Len(rows)]

\* Sum of the amounts of the first n processed transactions of one kind.
AmountsSoFar(kind, n) ==
    SumSeq([k \in 1..n |-> IF df[k].Transaction = kind THEN df[k].Amount ELSE 0])

\* Number of transactions the ledger loop has applied.
Processed == IF pc = "done" THEN Len(df) ELSE i - 1

\* The Withdrawal about to be applied asks for more than all lots hold.
OverWithdrawal ==
    /\ pc = "apply"
    /\ df[i].Transaction = "Withdrawal"
    /\ df[i].Amount > TotalPrincipal(deposit_ledger)

LotIds(ledger) == {ledger[k].id : k \in 1..Len(ledger)}
LotById(ledger, id) == ledger[CHOOSE k \in 1..Len(ledger) : ledger[k].id = id]

\* ---------------------------------------------------------------- claims
\* C1: a Withdrawal larger than the aggregate principal of the active lots
\* (after the accrual step) fails: no statement row is emitted for it and
\* the ledger loop does not go on.
C1_OverWithdrawalRejected ==
    [][OverWithdrawal => (rows' = rows /\ pc' \notin {"accrue", "final"})]_vars

\* C2: at every statement row, aggregate principal = deposits so far
\* - withdrawals so far + interest capitalized so far.
C2_PrincipalConservation ==
    RowJustEmitted =>
        total_principal = AmountsSoFar("Deposit", Processed)
                          - AmountsSoFar("Withdrawal", Processed) + capitalized

\* The equation of C2 over the ledger itself, at any point of a run.
Conserved ==
    TotalPrincipal(deposit_ledger) =
        AmountsSoFar("Deposit", Processed) - AmountsSoFar("Withdrawal", Processed)
        + capitalized

\* Every step of a run other than an over-withdrawal preserves the equation
\* of C2: only the truncated over-withdrawal of C1 breaks it.
ConservedUnlessOverWithdrawn ==
    [][(pc \in {"accrue", "apply", "final"} /\ Conserved /\ ~OverWithdrawal)
          => Conserved']_vars

\* No tier of the current configuration pays a negative rate.
RatesNonNegative ==
    base_rate >= margin_1 /\ base_rate >= margin_2 /\ base_rate >= margin_3

\* C3: the Total ROI column never decreases from one row to the next. Stated
\* for the runs in which no rate is negative (no lot loses value by accrual)
\* and no withdrawal was truncated (the equation of C2 holds), so that a
\* violation owes nothing to either.
C3_MonotonicRoi ==
    (RatesNonNegative /\ Conserved) =>
        \A k \in 1..(Len(rows) - 1) : rows[k].Roi <= rows[k + 1].Roi

\* A Withdrawal is about to be applied.
WithdrawalStep == pc = "apply" /\ df[i].Transaction = "Withdrawal"

\* Lot id of the ledger before the step has principal taken from it by the
\* step: it held some and is removed, or it survives with less.
Touched(id) ==
    \/ id \notin LotIds(deposit_ledger') /\ LotById(deposit_ledger, id).amount > 0
    \/ id \in LotIds(deposit_ledger') /\ LotById(deposit_ledger', id).amount < LotById(deposit_ledger, id).amount

\* C4: a Withdrawal consumes lots oldest opened date first: every surviving
\* lot is a lot of the ledger before, changed at most in its principal; a lot
\* is reduced or removed only if every lot opened on an earlier date is gone;
\* at most one surviving lot is reduced.
C4_FifoConsumption ==
    [][WithdrawalStep =>
        /\ \A id \in LotIds(deposit_ledger') :
              /\ id \in LotIds(deposit_ledger)
              /\ LotById(deposit_ledger', id) =
                   [LotById(deposit_ledger, id) EXCEPT
                       !.amount = LotById(deposit_ledger', id).amount]
              /\ LotById(deposit_ledger', id).amount <= LotById(deposit_ledger, id).amount
        /\ \A id \in LotIds(deposit_ledger) :
              Touched(id) =>
                 \A k \in 1..Len(deposit_ledger) :
                    deposit_ledger[k].date < LotById(deposit_ledger, id).date
                       => deposit_ledger[k].id \notin LotIds(deposit_ledger')
        /\ Cardinality({id \in LotIds(deposit_ledger') : Touched(id)}) <= 1
      ]_vars

\* C4 witness: a withdrawal has just removed the lot of the first transaction
\* and left the lot of the second one open with less than it was opened with.
C4_Witness ==
    /\ pc \in {"accrue", "final"}
    /\ i = 4
    /\ df[1].Transaction = "Deposit" /\ df[2].Transaction = "Deposit"
    /\ df[1].Date < df[2].Date
    /\ df[3].Transaction = "Withdrawal"
    /\ Len(deposit_ledger) = 1
    /\ deposit_ledger[1].id = 2
    /\ deposit_ledger[1].amount < df[2].Amount

\* The scenario of C5: lots opened on day 1 (amount A) and day 5 (amount B),
\* and the next transaction, dated day 5, is a Withdrawal of A.
C5_Case ==
    /\ pc = "apply"
    /\ i = 3
    /\ df[1] = Txn(1, "Deposit", df[1].Amount)
    /\ df[2] = Txn(5, "Deposit", df[2].Amount)
    /\ df[3] = Txn(5, "Withdrawal", df[1].Amount)
    /\ Len(deposit_ledger) = 2

\* C5 as stated: the withdrawal closes the day-1 lot and leaves the day-5 lot
\* untouched at B.
C5_ClosesOldestLot ==
    [][C5_Case =>
        /\ Len(deposit_ledger') = 1
        /\ deposit_ledger'[1].id = 2
        /\ deposit_ledger'[1].amount = df[2].Amount]_vars

\* C5 amended: the withdrawal of A is taken from the day-1 lot first. That lot
\* holds A plus the interest I capitalized over days 1..5: if I > 0 it stays
\* open with principal I and the day-5 lot keeps B; if I <= 0 it is removed
\* and the day-5 lot is reduced by the shortfall -I.
C5_OldestLotFirst ==
    [][C5_Case =>
        LET A == df[1].Amount
            B == df[2].Amount
            I == deposit_ledger[1].roi
            old == deposit_ledger[1]
            young == deposit_ledger[2]
        IN  /\ old.id = 1 /\ young.id = 2
            /\ old.amount = A + I
            /\ young.amount = B
            /\ deposit_ledger' =
                 (IF I > 0 THEN <<[old EXCEPT !.amount = I]>> ELSE <<>>)
                 \o (IF B + I > 0
                     THEN <<[young EXCEPT !.amount = IF I > 0 THEN B ELSE B + I]>>
                     ELSE <<>>)]_vars

\* C5 witness: the scenario has run with positive interest: the day-1 lot is
\* still open, holding its interest, and the day-5 lot holds B.
C5_Witness ==
    /\ pc \in {"accrue", "final"}
    /\ i = 4
    /\ df[1] = Txn(1, "Deposit", df[1].Amount)
    /\ df[2] = Txn(5, "Deposit", df[2].Amount)
    /\ df[3] = Txn(5, "Withdrawal", df[1].Amount)
    /\ Len(deposit_ledger) = 2
    /\ deposit_ledger[1].id = 1
    /\ deposit_ledger[1].roi > 0
    /\ deposit_ledger[1].amount = deposit_ledger[1].roi
    /\ deposit_ledger[2].amount = df[2].Amount

\* C6: when a transaction carries the date of the one processed before it, its
\* accrual step changes no lot (and capitalizes nothing); and the lot a Deposit
\* opens has roi 0 and principal equal to the deposit amount when the row of
\* that Deposit is emitted.
C6_ZeroDayNoOp ==
    [][/\ (pc = "accrue" /\ i > 1 /\ df[i].Date = df[i - 1].Date)
            => (deposit_ledger' = deposit_ledger /\ capitalized' = capitalized)
       /\ (pc = "apply" /\ df[i].Transaction = "Deposit")
            => /\ Len(deposit_ledger') = Len(deposit_ledger) + 1
               /\ deposit_ledger'[Len(deposit_ledger')].roi = 0
               /\ deposit_ledger'[Len(deposit_ledger')].amount = df[i].Amount
               /\ Len(rows') = Len(rows) + 1
      ]_vars

\* C6 witness: the accrual step of a same-date transaction has just run over a
\* ledger holding a lot that earned interest before.
C6_Witness ==
    /\ pc = "apply"
    /\ i > 1
    /\ df[i].Date = df[i - 1].Date
    /\ \E k \in 1..Len(deposit_ledger) : deposit_ledger[k].roi > 0

\* Amounts at and around the band boundaries, and the amounts in the ledger.
RateProbes ==
    {0, 1, Tier1Max - 1, Tier1Max, Tier1Max + 1, 50001 * Unit, Tier2Max - 1,
     Tier2Max, Tier2Max + 1, 499001 * Unit, 2000000 * Unit}
    \cup {deposit_ledger[k].amount : k \in 1..Len(deposit_ledger)}
    \cup {TotalPrincipal(deposit_ledger)}

\* C7: amount <= 50,000 resolves to base_rate - margin_1, 50,000 < amount
\* <= 499,000 to base_rate - margin_2, anything larger to base_rate - margin_3,
\* and every non-negative amount lies in exactly one band; every row shows the
\* rate of the band of the aggregate principal.
C7_TierBoundaries ==
    /\ \A a \in RateProbes :
          a >= 0 =>
            /\ (a <= 50000 * Unit) => get_client_rate(a) = base_rate - margin_1
            /\ (a > 50000 * Unit /\ a <= 499000 * Unit)
                  => get_client_rate(a) = base_rate - margin_2
            /\ (a > 499000 * Unit) => get_client_rate(a) = base_rate - margin_3
    /\ (pc \in {"accrue", "final", "done"} /\ rows # <<>>) =>
          LastRow.Rate = Round2(base_rate -
              (IF total_principal <= 50000 * Unit THEN margin_1
               ELSE IF total_principal <= 499000 * Unit THEN margin_2
               ELSE margin_3))

\* C7 witness: one statement shows a balance of exactly 50,000 at the first
\* band's rate and a balance of exactly 50,001 at the middle band's rate,
\* under margins that differ.
C7_Witness ==
    /\ margin_1 # margin_2
    /\ \E j, k \in 1..Len(rows) :
          /\ rows[j].Balance = 50000 * Unit
          /\ rows[j].Rate = base_rate - margin_1
          /\ rows[k].Balance = 50001 * Unit
          /\ rows[k].Rate = base_rate - margin_2

\* C8: at maturity, total_value = principal + roi of the Maturity row.
C8_TotalValue ==
    pc = "done" => total_value = total_principal + total_roi

\* The sorted list has a Withdrawal that no Deposit precedes.
WithdrawalBeforeDeposit ==
    \E k \in 1..Len(df) :
        /\ df[k].Transaction = "Withdrawal"
        /\ \A j \in 1..(k - 1) : df[j].Transaction # "Deposit"

\* C9: a run whose sorted list has a Withdrawal before any Deposit produces no
\* statement: no transaction row and no Maturity row.
C9_NoStatementOnEarlyWithdrawal ==
    (pc # "idle" /\ WithdrawalBeforeDeposit) => rows = <<>>

\* s is a prefix of t.
IsPrefix(s, t) == Len(s) <= Len(t) /\ s = SubSeq(t, 1, Len(s))

\* C10: the statement of a list of n transactions has n + 1 rows: row k echoes
\* the date, kind and amount of the k-th processed transaction, the last row
\* is the Maturity row (amount 0, dated at the maturity date); within a run,
\* rows are only appended.
C10_RowPerTransaction ==
    /\ [](/\ pc \in {"accrue", "apply", "final", "done"} =>
               /\ Len(rows) = (IF pc = "done" THEN Len(df) + 1 ELSE i - 1)
               /\ \A k \in 1..Len(rows) :
                     k <= Len(df) =>
                        /\ rows[k].Date = df[k].Date
                        /\ rows[k].Transaction = df[k].Transaction
                        /\ rows[k].Amount = df[k].Amount
          /\ pc = "done" =>
               /\ Len(df) = Len(transactions)
               /\ Len(rows) = Len(transactions) + 1
               /\ LastRow.Transaction = "Maturity"
               /\ LastRow.Amount = 0
               /\ LastRow.Date = maturity_date
               /\ \A k \in 1..Len(df) : rows[k].Transaction # "Maturity")
    /\ [][(pc \in {"accrue", "apply", "final"}) => IsPrefix(rows, rows')]_vars

\* C10 witness: a complete statement of three transactions.
C10_Witness ==
    pc = "done" /\ Len(transactions) = 3 /\ Len(rows) = 4

\* C11: the maturity date of a run is the date of the first transaction of
\* the date-sorted list plus the tenor.
C11_MaturityFromFirstTxn ==
    (pc # "idle" /\ df # <<>>) => maturity_date = df[1].Date + tenor

\* C12: every lot of the active set has principal > 0, at every point of a run.
C12_ActiveLotsPositive ==
    \A k \in 1..Len(deposit_ledger) : deposit_ledger[k].amount > 0

\* C13: while a lot is active with principal > 0, its accrued roi is not
\* negative and no step of the run lowers it, and its last accrual date never
\* moves backwards; for every rate configuration the inputs accept.
C13_LotRoiMonotonic ==
    [][(pc \in {"accrue", "apply", "final"}) =>
        \A id \in LotIds(deposit_ledger) \cap LotIds(deposit_ledger') :
            (LotById(deposit_ledger, id).amount > 0
                /\ LotById(deposit_ledger', id).amount > 0) =>
                /\ LotById(deposit_ledger, id).roi >= 0
                /\ LotById(deposit_ledger', id).roi >= LotById(deposit_ledger, id).roi
                /\ LotById(deposit_ledger', id).last_updated
                      >= LotById(deposit_ledger, id).last_updated]_vars

DepositAfterOverWithdrawal ==
    pc = "apply" /\ df[i].Transaction = "Deposit" /\ ~Conserved

\* C15: a Withdrawal larger than the total active principal removes every
\* lot and its row shows aggregate principal 0; the unsatisfied remainder is
\* dropped: a Deposit applied later in the run opens a lot holding the whole
\* deposited amount and leaves the other lots as they were.
C15_OverWithdrawalDiscarded ==
    [][/\ OverWithdrawal =>
            /\ deposit_ledger' = <<>>
            /\ total_principal' = 0
            /\ rows' = Append(rows, [Date |-> df[i].Date, Transaction |-> "Withdrawal",
                                     Amount |-> df[i].Amount, Balance |-> 0,
                                     Rate |-> rows'[Len(rows')].Rate, Roi |-> 0])
       /\ DepositAfterOverWithdrawal =>
            /\ Len(deposit_ledger') = Len(deposit_ledger) + 1
            /\ SubSeq(deposit_ledger', 1, Len(deposit_ledger)) = deposit_ledger
            /\ deposit_ledger'[Len(deposit_ledger')].amount = df[i].Amount
            /\ total_principal' = TotalPrincipal(deposit_ledger) + df[i].Amount]_vars

\* A run in which a Withdrawal took more than the lots held and a Deposit
\* applied after it has opened a lot.
C15_Witness ==
    /\ pc \in {"accrue", "final", "done"}
    /\ ~Conserved
    /\ \E k \in 1..Len(rows) :
          /\ rows[k].Transaction = "Withdrawal"
          /\ rows[k].Balance = 0
          /\ rows[k].Amount > 0
          /\ \E j \in (k + 1)..Len(rows) : rows[j].Transaction = "Deposit"
    /\ deposit_ledger # <<>>

\* The date an accrual step accrues to: the transaction's date in the loop,
\* the maturity date in finalization.
AccrualDate == IF pc = "accrue" THEN df[i].Date ELSE maturity_date

\* C16: in the loop's accrual step and in finalization, a lot that accrues
\* earns compound interest at the rate of the tier of its own principal as it
\* stands before the step; the Rate of every row is the rate of the tier of
\* the aggregate principal after the row's transaction has been applied.
C16_LotTierRowTier ==
    [][/\ (pc \in {"accrue", "final"}) =>
            \A k \in 1..Len(deposit_ledger) :
                LET lot == deposit_ledger[k]
                    days == AccrualDate - lot.last_updated
                    own == compute_compound_interest(lot.amount,
                                                     get_client_rate(lot.amount), days)
                IN  /\ Len(deposit_ledger') = Len(deposit_ledger)
                    /\ days > 0 =>
                          /\ deposit_ledger'[k].roi = lot.roi + own
                          /\ deposit_ledger'[k].amount = lot.amount + own
                    /\ days <= 0 => deposit_ledger'[k] = lot
       /\ (pc \in {"apply", "final"}) =>
            /\ Len(rows') = Len(rows) + 1
            /\ rows'[Len(rows')].Rate =
                   Round2(get_client_rate(TotalPrincipal(deposit_ledger')))]_vars

\* An accrual has just paid a lot at its own tier where the tier of the
\* aggregate principal would have paid a different interest.
C16_Witness ==
    /\ pc = "apply"
    /\ rows # <<>>
    /\ \E k \in 1..Len(deposit_ledger) :
          /\ deposit_ledger[k].roi > 0
          /\ get_client_rate(deposit_ledger[k].amount)
                 # get_client_rate(TotalPrincipal(deposit_ledger))
          /\ LastRow.Rate # Round2(get_client_rate(deposit_ledger[k].amount))

\* A form the handler must refuse: no client name, no account number, or an
\* Initial Deposit of 0.
Incomplete(f) ==
    f.client_name = "" \/ f.account_number = "" \/ f.initial_deposit = 0

\* C17: an Add Transaction click on a form with an empty Client Name, an
\* empty Account Number or Initial Deposit 0 reports an error and leaves the
\* session's transaction list exactly as it was.
C17_RejectedClickKeepsList ==
    [][\A f \in Forms :
          (Incomplete(f) /\ Click(f)) =>
              (notice' = "error" /\ transactions' = transactions)]_vars

\* A click has just been refused on a session that already holds records.
C17_Witness ==
    /\ notice = "error"
    /\ transactions # <<>>
    /\ pc = "accrue"
    /\ i = 1
    /\ rows = <<>>
    /\ df = SortByDate(transactions)

\* Number of Deposit records in a list.
Deposits(s) == Len(SelectSeq(s, LAMBDA t : t.Transaction = "Deposit"))

\* C18: a click never removes or changes a record of the session list; an
\* accepted click appends a Deposit of the Initial Deposit amount, then a
\* Deposit iff Additional Deposit > 0, then a Withdrawal iff Withdrawal > 0,
\* so each accepted click adds at least one Deposit record and every
\* recorded amount stays strictly positive.
C18_AppendOnly ==
    [][/\ IsPrefix(transactions, transactions')
       /\ \A f \in Forms :
            (~Incomplete(f) /\ Click(f)) =>
               LET n == Len(transactions)
                   a == IF f.additional_deposit > 0 THEN 1 ELSE 0
                   w == IF f.withdrawal > 0 THEN 1 ELSE 0
               IN  /\ Len(transactions') = n + 1 + a + w
                   /\ transactions'[n + 1] =
                          [Date |-> f.initial_date, Transaction |-> "Deposit",
                           Amount |-> f.initial_deposit]
                   /\ a = 1 => transactions'[n + 2] =
                          [Date |-> f.additional_date, Transaction |-> "Deposit",
                           Amount |-> f.additional_deposit]
                   /\ w = 1 => transactions'[n + 1 + a + 1] =
                          [Date |-> f.withdrawal_date, Transaction |-> "Withdrawal",
                           Amount |-> f.withdrawal]
                   /\ Deposits(transactions') >= Deposits(transactions) + 1
                   /\ \A k \in 1..Len(transactions') : transactions'[k].Amount > 0]_vars

\* An accepted click on a session that already held records: three Deposit
\* records cannot come from one click.
C18_Witness ==
    /\ notice = "success"
    /\ pc = "accrue"
    /\ Len(transactions) = 3
    /\ \A k \in 1..3 : transactions[k].Transaction = "Deposit"
    /\ df \in SortValues(transactions)

\* C19: once a run is finalized, no lot has accrued past the maturity date
\* and the Maturity row is the latest-dated row of the statement (stated for
\* runs with non-negative rates whose maturity date is counted from the first
\* transaction and in which no Withdrawal has taken more than the lots held).
C19_NoAccrualPastMaturity ==
    (/\ pc = "done" /\ df # <<>>
     /\ maturity_date = df[1].Date + tenor
     /\ RatesNonNegative /\ Conserved) =>
        /\ \A k \in 1..Len(deposit_ledger) :
              deposit_ledger[k].last_updated <= maturity_date
        /\ \A k \in 1..Len(rows) : rows[k].Date <= LastRow.Date
====
